---- MODULE Spec2Model ----
(***************************************************************************)
(* The chunked job-processing engine of csv-opener: the BullMQ queue       *)
(* service (services/queue.ts: worker, addChunkedJobs, stopJob, resumeJob, *)
(* cleanupJob), the job routes that call it, and the rows of the jobs and  *)
(* urls tables it reads and writes.                                        *)
(*                                                                         *)
(* One Job is modelled, with its Work Items 1..total in created_at order.  *)
(* Every await of the worker's processor is a step of its own; the control *)
(* operations of the routes are steps between which the workers run.       *)
(***************************************************************************)
EXTENDS Integers, Sequences, FiniteSets, TLC

\* ------------------------------------------------------------------ sizes
\* Items of the Job (rows of the urls table).
MaxItems == 3
\* Control requests answered in one behaviour.
MaxOps == 3
\* Iterations of the partition loop that are followed when it does not end.
MaxLoop == 3
\* Items of the Job on which every route and its refusals are tried.
MaxRouteItems == 2
\* config.maxRetries, the default; the values 1..MaxRetries are tried.
MaxRetries == 3
\* Rows of the urls table and rows of the jobs table the retry statements
\* are run on.
MaxDbUrls == 3
MaxDbJobs == 2
\* Largest chunk size handed to the partitioner on its own (smallest: -1).
MaxChunkSize == 3
\* config.batchSize, the page size of the paged start, scaled down.
BatchSize == 2
\* addChunkedJobs' default chunkSize (500 in the source), scaled down.
ChunkSize == 2
\* config.maxConcurrentJobs, the worker's concurrency (10), scaled down.
NumWorkers == 2
\* cleanupJob's maxAttempts.
MaxAttempts == 3

Items == 1..MaxItems
Workers == 1..NumWorkers
\* Sequence numbers a chunk of the Job can carry: the queue id is
\* `${jobId}-chunk-${seq}`.
ChunkIds == 1..((MaxItems + ChunkSize - 1) \div ChunkSize)
\* The queue id of an entry that addChunkedJobs did not build.
StrayId == 0
QueueIds == ChunkIds \cup {StrayId}

Min(a, b) == IF a < b THEN a ELSE b
Max(a, b) == IF a > b THEN a ELSE b

\* ------------------------------------------------------------- variables
VARIABLES
  job,      \* the row of the jobs table: exists, status, total, processed, failed
  item,     \* item[i]: status of row i of the urls table
  queue,    \* queue[seq]: the BullMQ job `${jobId}-chunk-${seq}`, or NoChunk
  worker,   \* worker[w]: the processor invocation worker slot w is running
  resume,   \* the resumeJob call in progress (its cleanupJob attempts)
  cleaner,  \* the deferred cleanupJob call in progress
  timers,   \* deferred cleanupJob calls scheduled with setTimeout, not yet run
  ops,      \* history: the control requests answered so far, in order; an
            \* accepted one by its name, a rejected one as name:status code
  hist,     \* history: the deltas chunk-end updates added since the counts were
            \* last set, whether the last Stop found a chunk partly processed,
            \* the chunk sequence numbers handed to the queue so far, and
            \* the number of Resumes done when a cleanupJob was last deferred
  purls, pC, pi, pchunks, pj, penq, ppc,  \* one addChunkedJobs call on its own
  deletion, \* the cleanupJob call of a DELETE /:jobId request in progress
  db,       \* the urls and jobs tables of two Jobs, for the retry statements
  gen,      \* one item's generateOpenerWithRetry call and the row it leaves
  janitor,  \* the periodicCleanup pass in progress and the entries it listed
  sse,      \* one GET /:jobId/stream request: its connection, listener and timers
  stopcall, \* one stopJob call followed through its remove-or-mark loop
  paging    \* one startStreamingProcessing call followed batch by batch

vars == <<job, item, queue, worker, resume, cleaner, timers, ops, hist,
          purls, pC, pi, pchunks, pj, penq, ppc, deletion, db, gen, janitor, sse,
          stopcall, paging>>
engineVars == <<job, item, queue, worker, resume, cleaner, timers, ops, hist>>
partVars == <<purls, pC, pi, pchunks, pj, penq, ppc>>
auxVars == <<deletion, db, gen, janitor, sse, stopcall, paging>>
\* The same without the stream: what an action that publishes an event leaves alone.
quietVars == <<deletion, db, gen, janitor, stopcall, paging>>

\* --------------------------------------------------------- the partitioner
\* Array.prototype.slice's clamping of one index against the array length.
SliceIndex(k, n) == IF k < 0 THEN Max(n + k, 0) ELSE Min(k, n)

\* urls.slice(from, to), 0-based and end-exclusive as in JavaScript.
JsSlice(s, from, to) ==
  LET a == SliceIndex(from, Len(s))
      b == SliceIndex(to, Len(s))
  IN IF b > a THEN SubSeq(s, a + 1, b) ELSE <<>>

\* The slice with its end one short: urls.slice(i, i + chunkSize - 1).
ChunkSliceShort(urls, i, c) == JsSlice(urls, i, i + c - 1)

\* The slice one iteration of the partition loop pushes:
\* chunks.push(urls.slice(i, i + chunkSize)).
ChunkSlice(urls, i, c) == JsSlice(urls, i, i + c)

\* The whole partition loop for a chunk size c > 0:
\* for (let i = 0; i < urls.length; i += chunkSize) chunks.push(...).
RECURSIVE PartitionFrom(_, _, _)
PartitionFrom(urls, i, c) ==
  IF i < Len(urls)
  THEN <<ChunkSlice(urls, i, c)>> \o PartitionFrom(urls, i + c, c)
  ELSE <<>>

Partition(urls, c) == PartitionFrom(urls, 0, c)

\* The chunkData addChunkedJobs builds for chunks[seq - 1]; the queue id is
\* made of the job id and the same number.
ChunkData(seq, urls) == [chunk |-> seq, urls |-> urls]

\* ------------------------------------------------------------ engine data
NoChunk == [state |-> "none"]

\* The queue's copy of a chunk that has just been added. epoch is history:
\* the number of Resume requests that had returned when it was added.
NewChunk(data, epoch) ==
  [state |-> "waiting", urls |-> data.urls, stopped |-> FALSE, epoch |-> epoch,
   kind |-> "ok"]

IdleWorker ==
  [pc |-> "idle", chunk |-> 0, urls |-> <<>>, stopped |-> FALSE, idx |-> 0,
   processedCount |-> 0, failedCount |-> 0,
   readProcessed |-> 0, readFailed |-> 0, readTotal |-> 0,
   sawStopped |-> FALSE, epoch |-> 0]

\* No cleanupJob call of this caller is running; result is what the last
\* finished call returned.
NoCall == [pc |-> "idle", attempts |-> 0, result |-> FALSE]

EngineIdle ==
  /\ item = [i \in Items |-> "pending"]
  /\ queue = [s \in QueueIds |-> NoChunk]
  /\ worker = [w \in Workers |-> IdleWorker]
  /\ resume = NoCall
  /\ cleaner = NoCall
  /\ timers = 0
  /\ ops = <<>>
  /\ hist = [processed |-> 0, failed |-> 0, stopMid |-> FALSE, seqs |-> {},
             sched |-> 0]

PartIdle ==
  /\ purls = <<>>
  /\ pC = ChunkSize
  /\ pi = 0
  /\ pchunks = <<>>
  /\ pj = 0
  /\ penq = <<>>
  /\ ppc = "done"

\* No retry statement has run: the tables are not looked at.
DbIdle == [pc |-> "off", urls |-> <<>>, jobs |-> <<>>, ret |-> 0, call |-> <<>>]

\* No generateOpenerWithRetry call is followed on its own.
GenIdle == [pc |-> "off"]

\* No periodicCleanup pass is running.
JanitorIdle == [pc |-> "idle", listed |-> {}, targets |-> FALSE]

\* No startStreamingProcessing call is running. ids is history: the queue
\* ids the call has handed to Queue.add, in order.
NoPaging == [pc |-> "idle", offset |-> 0, ids |-> <<>>]

\* No stopJob call is followed step by step.
NoStopCall == [pc |-> "idle", listed |-> {}, seen |-> {}, cur |-> 0]

\* No Progress Event written to the stream yet.
NoEvent == [status |-> "none", total |-> 0, completed |-> 0, failed |-> 0, pending |-> 0]

\* No stream request: nothing is subscribed to the Job's events.
SseOff ==
  [conn |-> "off", listener |-> FALSE, keepAlive |-> FALSE, check |-> FALSE,
   poll |-> "idle", polled |-> "none", last |-> NoEvent, finals |-> 0,
   pinged |-> FALSE, late |-> FALSE]

AuxIdle ==
  /\ deletion = NoCall
  /\ db = DbIdle
  /\ gen = GenIdle
  /\ janitor = JanitorIdle
  /\ sse = SseOff
  /\ stopcall = NoStopCall
  /\ paging = NoPaging

\* ------------------------------------------- addChunkedJobs, step by step
\* Lists of distinct item ids, in any order, up to MaxItems long.
ItemLists ==
  UNION {{s \in [1..n -> Items] : \A a, b \in 1..n : a # b => s[a] # s[b]} :
         n \in 0..MaxItems}

InitPart ==
  /\ job = [exists |-> FALSE, status |-> "pending", total |-> 0,
            processed |-> 0, failed |-> 0, progress |-> 0]
  /\ EngineIdle
  /\ AuxIdle
  /\ purls \in ItemLists
  /\ pC \in (0 - 1)..MaxChunkSize
  /\ pi = 0
  /\ pchunks = <<>>
  /\ pj = 0
  /\ penq = <<>>
  /\ ppc = "partition"

\* One iteration of the partition loop. With chunkSize <= 0 the loop has no
\* end; MaxLoop iterations of it are followed.
PartitionStep ==
  /\ ppc = "partition"
  /\ pi < Len(purls)
  /\ pC > 0 \/ Len(pchunks) < MaxLoop
  /\ pchunks' = Append(pchunks, ChunkSlice(purls, pi, pC))
  /\ pi' = pi + pC
  /\ UNCHANGED <<purls, pC, pj, penq, ppc>>
  /\ UNCHANGED engineVars
  /\ UNCHANGED auxVars

\* The loop condition i < urls.length is false: on to the enqueue loop.
PartitionExit ==
  /\ ppc = "partition"
  /\ ~(pi < Len(purls))
  /\ ppc' = "enqueue"
  /\ pj' = 0
  /\ UNCHANGED <<purls, pC, pi, pchunks, penq>>
  /\ UNCHANGED engineVars
  /\ UNCHANGED auxVars

\* One iteration of the enqueue loop: csvProcessingQueue.add of chunk pj + 1.
EnqueueStep ==
  /\ ppc = "enqueue"
  /\ pj < Len(pchunks)
  /\ penq' = Append(penq, ChunkData(pj + 1, pchunks[pj + 1]))
  /\ pj' = pj + 1
  /\ UNCHANGED <<purls, pC, pi, pchunks, ppc>>
  /\ UNCHANGED engineVars
  /\ UNCHANGED auxVars

\* The enqueue loop is over: addChunkedJobs returns.
EnqueueExit ==
  /\ ppc = "enqueue"
  /\ ~(pj < Len(pchunks))
  /\ ppc' = "done"
  /\ UNCHANGED <<purls, pC, pi, pchunks, pj, penq>>
  /\ UNCHANGED engineVars
  /\ UNCHANGED auxVars

NextPart == PartitionStep \/ PartitionExit \/ EnqueueStep \/ EnqueueExit

SpecPart == InitPart /\ [][NextPart]_vars

\* ------------------------------------------------------------- the store
\* getUrlsByJob: the Job's rows of the urls table, ORDER BY created_at.
JobUrls == IF job.exists THEN [i \in 1..job.total |-> i] ELSE <<>>

\* One status' COUNT(*) of getJobProgress' GROUP BY status.
CountStatus(st) == Cardinality({i \in 1..Len(JobUrls) : item[i] = st})

\* The same count over the statuses it.
CountIn(it, st) == Cardinality({i \in 1..Len(JobUrls) : it[i] = st})

\* --------------------------------------------------- the progress emitter
\* emitJobStart(jobId, totalUrls).
JobStartEvent(n) ==
  [status |-> "processing", total |-> n, completed |-> 0, failed |-> 0, pending |-> n]

\* emitUrlProgress(jobId, completed, failed, pending): the status is always
\* processing and the total is the sum of the three.
UrlProgressEvent(c, f, p) ==
  [status |-> "processing", total |-> c + f + p, completed |-> c, failed |-> f,
   pending |-> p]

\* emitJobComplete(jobId, totalCompleted, totalFailed).
JobCompleteEvent(c, f) ==
  [status |-> "completed", total |-> c + f, completed |-> c, failed |-> f, pending |-> 0]

\* emitJobStopped(jobId, processed, failed, pending).
JobStoppedEvent(c, f, p) ==
  [status |-> "stopped", total |-> c + f + p, completed |-> c, failed |-> f,
   pending |-> p]

\* The update the stream route builds from the row and getJobProgress.
RowEvent(status, j, it) ==
  [status |-> status, total |-> j.total, completed |-> CountIn(it, "completed"),
   failed |-> CountIn(it, "failed"),
   pending |-> CountIn(it, "pending") + CountIn(it, "processing")]

\* res.write on the stream s: the event reaches the client while the
\* connection is open; a write after the stream has ended or the client has
\* gone is noted.
SseWrite(s, ev) ==
  IF s.conn = "open" THEN [s EXCEPT !.last = ev] ELSE [s EXCEPT !.late = TRUE]

\* emitProgress: EventEmitter.emit calls the listeners registered for the
\* Job, here the progressHandler of the stream if it is registered.
EmitProgress(s, ev) == IF s.listener THEN SseWrite(s, ev) ELSE s

\* (x / total_rows) * 100 as the column progress DECIMAL(5,2) keeps it:
\* rounded to two decimals, here counted in hundredths of a percent.
Progress(x, total) == IF total > 0 THEN (10000 * x + total \div 2) \div total ELSE 0

\* updateJobStatus(jobId, status): UPDATE jobs SET status, progress WHERE
\* id = jobId; processedRows is undefined, so progress is computed from the
\* processed_rows of the row read.
UpdateJobStatus(j, status) ==
  IF j.exists
  THEN [j EXCEPT !.status = status, !.progress = Progress(j.processed, j.total)]
  ELSE j

\* updateJobStatus(jobId, status, processedRows, failedRows): progress is
\* computed from `processedRows || job.processed_rows`, the argument unless
\* it is 0, else the value of the row read before the update.
UpdateJobStatusCounts(j, status, p, f) ==
  IF j.exists
  THEN [j EXCEPT !.status = status, !.processed = p, !.failed = f,
                 !.progress = Progress(IF p # 0 THEN p ELSE j.processed, j.total)]
  ELSE j

\* updateJobProgress(jobId, processed, failed): the two counts of the row.
UpdateJobProgress(j, p, f) ==
  IF j.exists THEN [j EXCEPT !.processed = p, !.failed = f] ELSE j

\* updateUrlStatus(urlId, status): UPDATE urls SET status WHERE id = urlId.
UpdateUrlStatus(it, i, status) ==
  IF job.exists THEN [it EXCEPT ![i] = status] ELSE it

\* ------------------------------------------------------------- the queue
\* Queue.add with a custom jobId: a job whose id the queue already holds,
\* in any state, is ignored.
QueueAdd(q, data, epoch) ==
  IF q[data.chunk].state # "none"
  THEN q
  ELSE [q EXCEPT ![data.chunk] = NewChunk(data, epoch)]

RECURSIVE AddChunks(_, _, _, _)
AddChunks(q, chunks, k, epoch) ==
  IF k > Len(chunks)
  THEN q
  ELSE AddChunks(QueueAdd(q, ChunkData(k, chunks[k]), epoch), chunks, k + 1, epoch)

\* addChunkedJobs(jobId, urls, contentType) with the default chunk size.
AddChunkedJobs(q, urls, epoch) == AddChunks(q, Partition(urls, ChunkSize), 1, epoch)

\* The sequence numbers addChunkedJobs gives the chunks of urls: `chunk: i + 1`.
ChunkSeqs(urls) == 1..Len(Partition(urls, ChunkSize))

\* Job.remove(): fails on a job a worker holds the lock of (an active one).
Removable(c) == c.state \in {"waiting", "completed", "failed"}

\* job.data && job.data.jobId === jobId: the entry is in the queue and its
\* data names the Job.
OfJob(c) == c.state # "none" /\ c.kind \notin {"nodata", "nojobid"}

\* The catch after a failed remove() leaving the data as it is.
MarkStoppedNot(c) == c

\* job.updateData({ ...job.data, stopped: true }).
MarkStopped(c) == [c EXCEPT !.stopped = TRUE]

\* stopJob's loop over getJobs(['waiting', 'active', 'delayed']): remove, or
\* on failure updateData({...data, stopped: true}).
StopSweep(q) ==
  [s \in QueueIds |->
     IF ~OfJob(q[s]) THEN q[s]
     ELSE IF q[s].state = "waiting" THEN NoChunk
     ELSE IF q[s].state = "active" THEN MarkStopped(q[s])
     ELSE q[s]]

\* One attempt of cleanupJob over getJobs of all five states.
CleanupSweep(q) ==
  [s \in QueueIds |->
     IF ~OfJob(q[s]) THEN q[s]
     ELSE IF Removable(q[s]) THEN NoChunk
     ELSE MarkStopped(q[s])]

\* resumeJob's force removal: remove() on every chunk, failures only logged.
ForceRemove(q) ==
  [s \in QueueIds |-> IF OfJob(q[s]) /\ Removable(q[s]) THEN NoChunk ELSE q[s]]

HasChunks(q) == \E s \in QueueIds : OfJob(q[s])

\* The number of Resume requests that have returned.
Epoch == Cardinality({k \in 1..Len(ops) : ops[k] = "Resume"})

\* The counts were just set by a request: no chunk-end delta since.
NoCredit == [hist EXCEPT !.processed = 0, !.failed = 0]

\* ----------------------------------------------------------------- Init
\* A Job that was uploaded with 1..MaxItems valid rows: status pending, both
\* counts 0, every item pending, nothing in the queue.
Init ==
  /\ \E n \in 1..MaxItems :
       job = [exists |-> TRUE, status |-> "pending", total |-> n,
              processed |-> 0, failed |-> 0, progress |-> 0]
  /\ EngineIdle
  /\ PartIdle
  /\ AuxIdle

\* ----------------------------------------------------------- the worker
\* The loop notes the stopped Job and goes on with the item all the same.
OnStoppedContinue(w) == [worker[w] EXCEPT !.pc = "begin", !.sawStopped = TRUE]

\* The loop leaves an item on a stopped (or missing) Job: break.
OnStopped(w) == [worker[w] EXCEPT !.pc = "endRead", !.sawStopped = TRUE]

\* The processor returns: BullMQ moves the chunk to the completed set
\* (removeOnComplete keeps the 10 latest) and the worker slot is free.
ReleaseChunk(q, s) == [q EXCEPT ![s].state = "completed"]

\* A worker slot takes a waiting chunk; the processor starts. job.data is
\* the data as the queue held it at this moment. A chunk whose data carries
\* stopped returns at once. The slots are alike: the lowest free one takes.
W_Lease(w, s) ==
  /\ worker[w].pc = "idle"
  /\ \A v \in Workers : v < w => worker[v].pc # "idle"
  /\ queue[s].state = "waiting"
  /\ IF queue[s].stopped
     THEN /\ queue' = ReleaseChunk(queue, s)
          /\ UNCHANGED worker
     ELSE /\ queue' = [queue EXCEPT ![s].state = "active"]
          /\ worker' = [worker EXCEPT ![w] =
               [IdleWorker EXCEPT !.pc = "check", !.chunk = s,
                                  !.urls = queue[s].urls,
                                  !.stopped = queue[s].stopped,
                                  !.idx = 1, !.epoch = queue[s].epoch]]
  /\ UNCHANGED <<job, item, resume, cleaner, timers, ops, hist>>
  /\ UNCHANGED partVars
  /\ UNCHANGED auxVars

\* Top of the loop body: getJob, the status check, the check of job.data.
W_Check(w) ==
  /\ worker[w].pc = "check"
  /\ worker' = [worker EXCEPT ![w] =
       IF ~job.exists \/ job.status = "stopped" THEN OnStopped(w)
       ELSE IF worker[w].stopped THEN [@ EXCEPT !.pc = "endRead"]
       ELSE [@ EXCEPT !.pc = "begin"]]
  /\ UNCHANGED <<job, item, queue, resume, cleaner, timers, ops, hist>>
  /\ UNCHANGED partVars
  /\ UNCHANGED auxVars

\* updateUrlStatus(id, 'processing'), then the call of the generation is made.
W_Begin(w) ==
  /\ worker[w].pc = "begin"
  /\ item' = UpdateUrlStatus(item, worker[w].urls[worker[w].idx], "processing")
  /\ worker' = [worker EXCEPT ![w].pc = "gen"]
  /\ UNCHANGED <<job, queue, resume, cleaner, timers, ops, hist>>
  /\ UNCHANGED partVars
  /\ UNCHANGED auxVars

\* generateOpenerWithRetry returns (ok) or throws after its retries; the
\* result is written to the item and the chunk's own counter goes up; the
\* counts getJobProgress then reads, if the row is there, are published.
W_Finish(w, ok) ==
  /\ worker[w].pc = "gen"
  /\ item' = UpdateUrlStatus(item, worker[w].urls[worker[w].idx],
                             IF ok THEN "completed" ELSE "failed")
  /\ worker' = [worker EXCEPT ![w] =
       [@ EXCEPT !.processedCount = IF ok THEN @ + 1 ELSE @,
                 !.failedCount = IF ok THEN @ ELSE @ + 1,
                 !.idx = @ + 1,
                 !.pc = IF worker[w].idx + 1 > Len(worker[w].urls)
                        THEN "endRead" ELSE "check"]]
  /\ sse' = IF job.exists
            THEN EmitProgress(sse, UrlProgressEvent(
                   CountIn(item', "completed"), CountIn(item', "failed"),
                   CountIn(item', "pending") + CountIn(item', "processing")))
            ELSE sse
  /\ UNCHANGED <<job, queue, resume, cleaner, timers, ops, hist>>
  /\ UNCHANGED partVars
  /\ UNCHANGED quietVars

\* After the loop: getJob. No row, or status stopped: the processor returns
\* without touching the counts. Otherwise the counts read are kept.
W_EndRead(w) ==
  /\ worker[w].pc = "endRead"
  /\ IF ~job.exists \/ job.status = "stopped"
     THEN /\ queue' = ReleaseChunk(queue, worker[w].chunk)
          /\ worker' = [worker EXCEPT ![w] = IdleWorker]
     ELSE /\ worker' = [worker EXCEPT ![w] =
               [@ EXCEPT !.pc = "endWrite",
                         !.readProcessed = job.processed,
                         !.readFailed = job.failed,
                         !.readTotal = job.total]]
          /\ UNCHANGED queue
  /\ UNCHANGED <<job, item, resume, cleaner, timers, ops, hist>>
  /\ UNCHANGED partVars
  /\ UNCHANGED auxVars

\* newProcessedRows + newFailedRows >= jobRecord.total_rows.
ChunkCompletesJob(w) ==
  worker[w].readProcessed + worker[w].processedCount
    + worker[w].readFailed + worker[w].failedCount >= worker[w].readTotal

\* The Job row as the chunk-end update leaves it: status processing with the
\* counts read plus the chunk's own, then completed when they reach total_rows.
ChunkEndRow(w) ==
  LET newProcessedRows == worker[w].readProcessed + worker[w].processedCount
      newFailedRows == worker[w].readFailed + worker[w].failedCount
      written == UpdateJobStatusCounts(job, "processing", newProcessedRows, newFailedRows)
  IN IF ChunkCompletesJob(w)
     THEN UpdateJobStatus(written, "completed")
     ELSE written

W_EndWrite(w) ==
  /\ worker[w].pc = "endWrite"
  /\ job' = ChunkEndRow(w)
  /\ timers' = IF ChunkCompletesJob(w) THEN timers + 1 ELSE timers
  /\ hist' = [hist EXCEPT !.processed = @ + worker[w].processedCount,
                          !.failed = @ + worker[w].failedCount,
                          !.sched = IF ChunkCompletesJob(w) THEN Epoch ELSE @]
  /\ queue' = ReleaseChunk(queue, worker[w].chunk)
  /\ worker' = [worker EXCEPT ![w] = IdleWorker]
  /\ sse' = IF ChunkCompletesJob(w)
            THEN EmitProgress(sse, JobCompleteEvent(
                   worker[w].readProcessed + worker[w].processedCount,
                   worker[w].readFailed + worker[w].failedCount))
            ELSE sse
  /\ UNCHANGED <<item, resume, cleaner, ops>>
  /\ UNCHANGED partVars
  /\ UNCHANGED quietVars

\* ------------------------------------------------- the control operations
CanRequest == Len(ops) < MaxOps

\* resetUrlStatusesForJob: every item of the Job back to pending.
ResetUrlStatuses(it) ==
  [i \in Items |-> IF i <= Len(JobUrls) THEN "pending" ELSE it[i]]

\* startProcessing going on without having found the row.
StartAcceptedUnchecked == ~job.exists \/ Len(JobUrls) > 0

\* startProcessing's checks: the row is found and the Job has items.
StartAccepted == job.exists /\ Len(JobUrls) > 0

\* POST /process, startProcessing, for a Job of at most config.batchSize
\* items: the row is found and has items; no status is asked for.
Start ==
  /\ CanRequest
  /\ StartAccepted
  /\ job' = UpdateJobStatusCounts(job, "processing", 0, 0)
  /\ item' = ResetUrlStatuses(item)
  /\ queue' = AddChunkedJobs(queue, JobUrls, Epoch)
  /\ ops' = Append(ops, "Start")
  /\ hist' = [NoCredit EXCEPT !.seqs = @ \cup ChunkSeqs(JobUrls)]
  /\ sse' = EmitProgress(sse, JobStartEvent(Len(JobUrls)))
  /\ UNCHANGED <<worker, resume, cleaner, timers>>
  /\ UNCHANGED partVars
  /\ UNCHANGED quietVars

\* --------------------------------------------- the paged start of a Job
\* getUrlsByJobPaginated(jobId, offset, limit): the items of the Job from
\* offset on, at most limit of them.
UrlsByJobPaginated(offset, limit) ==
  JsSlice(JobUrls, offset, offset + limit)

\* The queue ids one addChunkedJobs call hands to Queue.add for urls, in
\* order: `${jobId}-chunk-${i + 1}` for the chunks i = 0, 1, ...
ChunkIdsOf(urls) == [k \in 1..Len(Partition(urls, ChunkSize)) |-> k]

\* POST /process, startProcessing, for a Job of more than config.batchSize
\* items, up to the call of startStreamingProcessing.
StartStreaming ==
  /\ CanRequest
  /\ StartAccepted
  /\ Len(JobUrls) > BatchSize
  /\ paging.pc = "idle"
  /\ job' = UpdateJobStatusCounts(job, "processing", 0, 0)
  /\ item' = ResetUrlStatuses(item)
  /\ sse' = EmitProgress(sse, JobStartEvent(Len(JobUrls)))
  /\ paging' = [pc |-> "loop", offset |-> 0, ids |-> <<>>]
  /\ hist' = NoCredit
  /\ UNCHANGED <<queue, worker, resume, cleaner, timers, ops>>
  /\ UNCHANGED partVars
  /\ UNCHANGED <<deletion, db, gen, janitor, stopcall>>

\* One pass of startStreamingProcessing's while loop: the row is read (no
\* row or stopped: break), a page of batchSize items is read (none: break)
\* and handed to addChunkedJobs, and offset goes up by batchSize.
StreamBatch ==
  /\ paging.pc = "loop"
  /\ LET urlBatch == UrlsByJobPaginated(paging.offset, BatchSize)
         off == paging.offset + BatchSize
     IN IF ~job.exists \/ job.status = "stopped" \/ Len(urlBatch) = 0
        THEN /\ paging' = [paging EXCEPT !.pc = "done"]
             /\ UNCHANGED <<queue, hist>>
        ELSE /\ queue' = AddChunkedJobs(queue, urlBatch, Epoch)
             /\ hist' = [hist EXCEPT !.seqs = @ \cup ChunkSeqs(urlBatch)]
             /\ paging' = [pc |-> IF off < Len(JobUrls) THEN "loop" ELSE "done",
                           offset |-> off,
                           ids |-> paging.ids \o ChunkIdsOf(urlBatch)]
  /\ UNCHANGED <<job, item, worker, resume, cleaner, timers, ops>>
  /\ UNCHANGED partVars
  /\ UNCHANGED <<deletion, db, gen, janitor, sse, stopcall>>

\* startStreamingProcessing has returned: the route answers
\* 'Processing started'.
StreamReturn ==
  /\ paging.pc = "done"
  /\ paging' = [paging EXCEPT !.pc = "returned"]
  /\ ops' = Append(ops, "Start")
  /\ UNCHANGED <<job, item, queue, worker, resume, cleaner, timers, hist>>
  /\ UNCHANGED partVars
  /\ UNCHANGED <<deletion, db, gen, janitor, sse, stopcall>>

\* Worker w is inside its chunk: an item was started and one is unfinished.
PartlyProcessed(w) ==
  /\ worker[w].pc \in {"check", "begin", "gen"}
  /\ worker[w].idx > 1 \/ worker[w].pc = "gen"

\* The stop route with its check of stopped left out.
StopAcceptedUnlessCompleted == job.exists /\ job.status # "completed"

\* The stop route's checks before stopJob is called.
StopAccepted == job.exists /\ job.status \notin {"completed", "stopped"}

\* POST /:jobId/stop and stopJob: remove or mark the chunks, copy the item
\* counts of getJobProgress to the row, set stopped, schedule cleanupJob.
Stop ==
  /\ CanRequest
  /\ StopAccepted
  /\ queue' = StopSweep(queue)
  /\ job' = UpdateJobStatus(
              UpdateJobProgress(job, CountStatus("completed"), CountStatus("failed")),
              "stopped")
  /\ timers' = timers + 1
  /\ ops' = Append(ops, "Stop")
  /\ hist' = [NoCredit EXCEPT !.stopMid = \E w \in Workers : PartlyProcessed(w),
                              !.sched = Epoch]
  /\ sse' = EmitProgress(sse, JobStoppedEvent(
              CountStatus("completed"), CountStatus("failed"),
              CountStatus("pending") + CountStatus("processing")))
  /\ UNCHANGED <<item, worker, resume, cleaner>>
  /\ UNCHANGED partVars
  /\ UNCHANGED quietVars

\* ------------------------------------------------- stopJob, step by step
StopFrame ==
  /\ UNCHANGED partVars
  /\ UNCHANGED <<deletion, db, gen, janitor, sse, paging>>

\* POST /:jobId/stop passes the route's checks and stopJob lists the queue:
\* the chunks of the Job that are waiting, active or delayed.
StopList ==
  /\ CanRequest
  /\ StopAccepted
  /\ stopcall.pc = "idle"
  /\ LET found == {s \in QueueIds : OfJob(queue[s])
                                     /\ queue[s].state \in {"waiting", "active"}}
     IN stopcall' = [pc |-> "sweep", listed |-> found, seen |-> found, cur |-> 0]
  /\ UNCHANGED engineVars
  /\ StopFrame

\* One pass of the loop up to the catch: remove() on a listed chunk. It
\* throws on a chunk a worker holds, and on one that is gone.
StopRemove(s) ==
  /\ stopcall.pc = "sweep"
  /\ s \in stopcall.listed
  /\ IF queue[s].state # "none" /\ Removable(queue[s])
     THEN /\ queue' = [queue EXCEPT ![s] = NoChunk]
          /\ stopcall' = [stopcall EXCEPT !.listed = @ \ {s}]
     ELSE /\ stopcall' = [stopcall EXCEPT !.pc = "mark", !.cur = s]
          /\ UNCHANGED queue
  /\ UNCHANGED <<job, item, worker, resume, cleaner, timers, ops, hist>>
  /\ StopFrame

\* The catch: updateData sets stopped on the chunk; on a chunk that is gone
\* it throws, which is logged.
StopMark ==
  /\ stopcall.pc = "mark"
  /\ queue' = IF queue[stopcall.cur].state # "none"
              THEN [queue EXCEPT ![stopcall.cur] = MarkStopped(@)]
              ELSE queue
  /\ stopcall' = [stopcall EXCEPT !.pc = "sweep", !.listed = @ \ {stopcall.cur},
                                  !.cur = 0]
  /\ UNCHANGED <<job, item, worker, resume, cleaner, timers, ops, hist>>
  /\ StopFrame

\* After the loop: the item counts go to the row, the status becomes
\* stopped, the deferred cleanupJob is scheduled and stopJob returns true.
StopReturn ==
  /\ stopcall.pc = "sweep"
  /\ stopcall.listed = {}
  /\ stopcall' = [stopcall EXCEPT !.pc = "idle"]
  /\ job' = UpdateJobStatus(
              UpdateJobProgress(job, CountStatus("completed"), CountStatus("failed")),
              "stopped")
  /\ timers' = timers + 1
  /\ ops' = Append(ops, "Stop")
  /\ hist' = [NoCredit EXCEPT !.stopMid = \E w \in Workers : PartlyProcessed(w),
                              !.sched = Epoch]
  /\ sse' = EmitProgress(sse, JobStoppedEvent(
              CountStatus("completed"), CountStatus("failed"),
              CountStatus("pending") + CountStatus("processing")))
  /\ UNCHANGED <<item, queue, worker, resume, cleaner>>
  /\ UNCHANGED partVars
  /\ UNCHANGED <<deletion, db, gen, janitor, paging>>

StopStep == StopList \/ (\E s \in QueueIds : StopRemove(s)) \/ StopMark \/ StopReturn

\* The while loop going round once more than maxAttempts allows.
CleanupAttemptOneMore(c) ==
  LET n == c.attempts + 1
      over == ~HasChunks(queue) \/ n > MaxAttempts
  IN [pc |-> IF over THEN "done" ELSE "cleanup",
      attempts |-> n,
      result |-> over /\ ~HasChunks(CleanupSweep(queue))]

\* One pass of cleanupJob's while loop for the call c: no chunk found ends
\* the loop, and so does the last attempt; otherwise it waits a second.
\* When the loop ends the queue is listed once more and the call returns
\* whether no chunk of the Job is left.
CleanupAttempt(c) ==
  LET n == c.attempts + 1
      over == ~HasChunks(queue) \/ n >= MaxAttempts
  IN [pc |-> IF over THEN "done" ELSE "cleanup",
      attempts |-> n,
      result |-> over /\ ~HasChunks(CleanupSweep(queue))]

\* The resume route and resumeJob asking only for the row.
ResumeAcceptedAnyStatus == job.exists

\* The resume route's checks, which resumeJob repeats: the row is there and
\* its status is stopped.
ResumeAccepted == job.exists /\ job.status = "stopped"

\* POST /:jobId/resume and resumeJob up to the first attempt of cleanupJob.
ResumeBegin ==
  /\ CanRequest
  /\ resume.pc = "idle"
  /\ ResumeAccepted
  /\ resume' = CleanupAttempt(resume)
  /\ queue' = CleanupSweep(queue)
  /\ UNCHANGED <<job, item, worker, cleaner, timers, ops, hist>>
  /\ UNCHANGED partVars
  /\ UNCHANGED auxVars

\* A later attempt of resumeJob's cleanupJob call.
ResumeCleanup ==
  /\ resume.pc = "cleanup"
  /\ resume' = CleanupAttempt(resume)
  /\ queue' = CleanupSweep(queue)
  /\ UNCHANGED <<job, item, worker, cleaner, timers, ops, hist>>
  /\ UNCHANGED partVars
  /\ UNCHANGED auxVars

\* The items resumeJob re-enqueues: status pending or failed.
PendingUrls == SelectSeq(JobUrls, LAMBDA i : item[i] \in {"pending", "failed"})

\* The rest of resumeJob: the force removal, the items read, then either
\* completed, or processing with the counts of the items and new chunks.
ResumeFinish ==
  /\ resume.pc = "done"
  /\ resume' = NoCall
  /\ ops' = Append(ops, "Resume")
  /\ IF Len(PendingUrls) = 0
     THEN /\ job' = UpdateJobStatus(job, "completed")
          /\ queue' = ForceRemove(queue)
          /\ UNCHANGED hist
     ELSE /\ job' = UpdateJobProgress(UpdateJobStatus(job, "processing"),
                                      CountStatus("completed"), CountStatus("failed"))
          /\ queue' = AddChunkedJobs(ForceRemove(queue), PendingUrls, Epoch + 1)
          /\ hist' = [NoCredit EXCEPT !.seqs = @ \cup ChunkSeqs(PendingUrls)]
  /\ UNCHANGED <<item, worker, cleaner, timers>>
  /\ UNCHANGED partVars
  /\ UNCHANGED auxVars

\* POST /:jobId/retry without urlIds, retryFailedUrls: the failed items go
\* back to pending; a completed or failed Job goes back to processing.
RetryFailedUrls ==
  /\ CanRequest
  /\ job.exists
  /\ item' = [i \in Items |->
                IF i <= Len(JobUrls) /\ item[i] = "failed" THEN "pending" ELSE item[i]]
  /\ job' = IF job.status \in {"completed", "failed"}
            THEN UpdateJobStatus(job, "processing") ELSE job
  /\ ops' = Append(ops, "Retry")
  /\ UNCHANGED <<queue, worker, resume, cleaner, timers, hist>>
  /\ UNCHANGED partVars
  /\ UNCHANGED auxVars

\* A setTimeout(cleanupJob) comes due: the first attempt of that call.
TimerFire ==
  /\ timers > 0
  /\ cleaner.pc = "idle"
  /\ timers' = timers - 1
  /\ cleaner' = LET c == CleanupAttempt(cleaner) IN IF c.pc = "done" THEN NoCall ELSE c
  /\ queue' = CleanupSweep(queue)
  /\ UNCHANGED <<job, item, worker, resume, ops, hist>>
  /\ UNCHANGED partVars
  /\ UNCHANGED auxVars

\* A later attempt of the deferred cleanupJob call.
CleanerAttempt ==
  /\ cleaner.pc = "cleanup"
  /\ cleaner' = LET c == CleanupAttempt(cleaner) IN IF c.pc = "done" THEN NoCall ELSE c
  /\ queue' = CleanupSweep(queue)
  /\ UNCHANGED <<job, item, worker, resume, timers, ops, hist>>
  /\ UNCHANGED partVars
  /\ UNCHANGED auxVars

\* ------------------------------------------- the routes' other answers
\* A request is answered with an error status and nothing else happens.
Refusal(answer) ==
  /\ CanRequest
  /\ ops' = Append(ops, answer)
  /\ UNCHANGED <<job, item, queue, worker, resume, cleaner, timers, hist>>
  /\ UNCHANGED partVars
  /\ UNCHANGED auxVars

\* POST /:jobId/stop answers 404 without the row, 400 on completed or stopped.
StopRefused ==
  /\ ~StopAccepted
  /\ Refusal(IF ~job.exists THEN "Stop:404" ELSE "Stop:400")

\* POST /:jobId/resume answers 404 without the row, 400 unless stopped.
ResumeRefused ==
  /\ ~ResumeAccepted
  /\ Refusal(IF ~job.exists THEN "Resume:404" ELSE "Resume:400")

\* POST /process answers 404 without the row, 400 for a Job with no items.
StartRefused ==
  /\ ~StartAccepted
  /\ Refusal(IF ~job.exists THEN "Start:404" ELSE "Start:400")

\* POST /:jobId/retry answers 404 without the row.
RetryRefused ==
  /\ ~job.exists
  /\ Refusal("Retry:404")

\* POST /:jobId/cancel, cancelJob: 404 without the row; otherwise the status
\* becomes stopped, whatever it was, and the queue is not touched.
CancelJob ==
  /\ CanRequest
  /\ ops' = Append(ops, IF job.exists THEN "Cancel" ELSE "Cancel:404")
  /\ job' = UpdateJobStatus(job, "stopped")
  /\ UNCHANGED <<item, queue, worker, resume, cleaner, timers, hist>>
  /\ UNCHANGED partVars
  /\ UNCHANGED auxVars

\* The delete route asking only for the row.
DeleteAcceptedAnyStatus == job.exists

\* The delete route's checks: the row is there and is not processing.
DeleteAccepted == job.exists /\ job.status # "processing"

\* DELETE /:jobId answers 404 without the row, 400 on a processing Job.
DeleteRefused ==
  /\ ~DeleteAccepted
  /\ Refusal(IF ~job.exists THEN "Delete:404" ELSE "Delete:400")

\* DELETE /:jobId up to the first attempt of its cleanupJob call.
DeleteBegin ==
  /\ CanRequest
  /\ deletion.pc = "idle"
  /\ DeleteAccepted
  /\ deletion' = CleanupAttempt(deletion)
  /\ queue' = CleanupSweep(queue)
  /\ UNCHANGED <<job, item, worker, resume, cleaner, timers, ops, hist>>
  /\ UNCHANGED partVars
  /\ UNCHANGED <<db, gen, janitor, sse, stopcall, paging>>

\* A later attempt of the delete route's cleanupJob call.
DeleteCleanup ==
  /\ deletion.pc = "cleanup"
  /\ deletion' = CleanupAttempt(deletion)
  /\ queue' = CleanupSweep(queue)
  /\ UNCHANGED <<job, item, worker, resume, cleaner, timers, ops, hist>>
  /\ UNCHANGED partVars
  /\ UNCHANGED <<db, gen, janitor, sse, stopcall, paging>>

\* No row of the jobs table for the id.
NoJob == [exists |-> FALSE, status |-> "pending", total |-> 0,
          processed |-> 0, failed |-> 0, progress |-> 0]

\* deleteJob: the row of the Job and the rows of its items are gone.
DeleteJob ==
  /\ job' = NoJob
  /\ item' = [i \in Items |-> "pending"]

\* The rest of the delete route: deleteJob, then the answer.
DeleteFinish ==
  /\ deletion.pc = "done"
  /\ deletion' = NoCall
  /\ DeleteJob
  /\ ops' = Append(ops, "Delete")
  /\ UNCHANGED <<queue, worker, resume, cleaner, timers, hist>>
  /\ UNCHANGED partVars
  /\ UNCHANGED <<db, gen, janitor, sse, stopcall, paging>>

\* ------------------------------------- the retry statements on the tables
DbUrlIds == 1..MaxDbUrls
DbJobIds == 1..MaxDbJobs

\* A row of urls: its job_id, its status, and whether error is set.
DbUrlRows ==
  {[job |-> j, status |-> st, error |-> (st = "failed")] :
     j \in DbJobIds, st \in {"pending", "processing", "completed", "failed"}}

\* WHERE job_id = $1 AND status = 'failed', for any job_id.
RetryWhereAnyJob(row, id, j, ids) == row.status = "failed" /\ id \in ids

\* WHERE job_id = $1 [AND id IN (...)] AND status = 'failed'.
RetryWhere(row, id, j, ids) ==
  row.job = j /\ row.status = "failed" /\ id \in ids

\* The two UPDATE statements of a retry: the rows of urls that match go to
\* pending with error NULL; a completed or failed row of jobs goes to
\* processing; the call returns the number of url rows RETURNING gave.
RetryStatements(d, fn, j, ids) ==
  [pc |-> "done",
   urls |-> [id \in DbUrlIds |->
               IF RetryWhere(d.urls[id], id, j, ids)
               THEN [d.urls[id] EXCEPT !.status = "pending", !.error = FALSE]
               ELSE d.urls[id]],
   jobs |-> [k \in DbJobIds |->
               IF k = j /\ d.jobs[k] \in {"completed", "failed"}
               THEN "processing" ELSE d.jobs[k]],
   ret |-> Cardinality({id \in DbUrlIds : RetryWhere(d.urls[id], id, j, ids)}),
   call |-> <<fn, j, ids>>]

\* retryFailedUrls(jobId).
DbRetryFailedUrls(d, j) == RetryStatements(d, "retryFailedUrls", j, DbUrlIds)

\* retrySpecificUrls(jobId, urlIds), urlIds not empty.
DbRetrySpecificUrls(d, j, ids) == RetryStatements(d, "retrySpecificUrls", j, ids)

InitDb ==
  /\ job = NoJob
  /\ EngineIdle
  /\ PartIdle
  /\ deletion = NoCall
  /\ gen = GenIdle
  /\ janitor = JanitorIdle
  /\ sse = SseOff
  /\ stopcall = NoStopCall
  /\ paging = NoPaging
  /\ \E u \in [DbUrlIds -> DbUrlRows],
        jb \in [DbJobIds -> {"processing", "stopped", "completed", "failed"}] :
        db = [pc |-> "ready", urls |-> u, jobs |-> jb, ret |-> 0, call |-> <<>>]

RetryFailedCall ==
  /\ db.pc = "ready"
  /\ \E j \in DbJobIds : db' = DbRetryFailedUrls(db, j)
  /\ UNCHANGED engineVars
  /\ UNCHANGED partVars
  /\ UNCHANGED <<deletion, gen, janitor, sse, stopcall, paging>>

RetrySpecificCall ==
  /\ db.pc = "ready"
  /\ \E j \in DbJobIds, ids \in (SUBSET DbUrlIds) \ {{}} :
        db' = DbRetrySpecificUrls(db, j, ids)
  /\ UNCHANGED engineVars
  /\ UNCHANGED partVars
  /\ UNCHANGED <<deletion, gen, janitor, sse, stopcall, paging>>

NextDb == RetryFailedCall \/ RetrySpecificCall

SpecDb == InitDb /\ [][NextDb]_vars

\* ------------------------------- one item's generation call, step by step
\* What each call of generateOpener will do: return, or throw an error that
\* is transient (or untagged), or one whose message names a permanent cause.
GenPlans == [1..MaxRetries -> {"ok", "transient", "permanent"}]

\* The two classes that implement generateOpenerWithRetry.
Services == {"openai", "huggingface"}

\* The wait after failed attempt number attempt, in milliseconds:
\* Math.pow(2, attempt) * 1000 in OpenAIService,
\* Math.pow(2, attempt - 1) * 1000 in HuggingFaceService.
BackoffDelay(service, attempt) ==
  IF service = "openai" THEN (2 ^ attempt) * 1000 ELSE (2 ^ (attempt - 1)) * 1000

\* The error-kind check of the catch block: OpenAIService rethrows an error
\* whose message names an invalid key, an exhausted quota or billing;
\* HuggingFaceService has no such check.
RethrowsAtOnce(service, kind) == service = "openai" /\ kind = "permanent"

\* The row of the item before the worker writes the outcome: processing.
ProcessingRow == [status |-> "processing", error |-> 0, retry_count |-> 0]

\* No ProcessedRow returned yet by processCsvRow.
NoCsvRow == [done |-> FALSE, success |-> FALSE, error |-> 0]

InitGen ==
  /\ job = NoJob
  /\ EngineIdle
  /\ PartIdle
  /\ deletion = NoCall
  /\ db = DbIdle
  /\ janitor = JanitorIdle
  /\ sse = SseOff
  /\ stopcall = NoStopCall
  /\ paging = NoPaging
  /\ \E plan \in GenPlans, m \in 1..MaxRetries, svc \in Services :
        gen = [pc |-> "call", service |-> svc, max |-> m, plan |-> plan,
               attempt |-> 1, calls |-> 0, waits |-> <<>>, lastError |-> 0,
               row |-> ProcessingRow, csv |-> NoCsvRow]

GenFrame ==
  /\ UNCHANGED engineVars
  /\ UNCHANGED partVars
  /\ UNCHANGED <<deletion, db, janitor, sse, stopcall, paging>>

\* One pass of the for loop up to the wait: generateOpener is called; it
\* returns, or the error is kept as lastError and, if the service checks
\* for permanent errors and this is one, rethrown.
\* The error of attempt a is known by its number a.
GenAttempt ==
  /\ gen.pc = "call"
  /\ gen.attempt <= gen.max
  /\ LET a == gen.attempt
         g == [gen EXCEPT !.calls = @ + 1]
     IN gen' = IF gen.plan[a] = "ok" THEN [g EXCEPT !.pc = "returned"]
               ELSE IF RethrowsAtOnce(gen.service, gen.plan[a])
               THEN [g EXCEPT !.lastError = a, !.pc = "thrown"]
               ELSE IF a < gen.max
               THEN [g EXCEPT !.lastError = a, !.pc = "wait"]
               ELSE [g EXCEPT !.lastError = a, !.attempt = a + 1]
  /\ GenFrame

\* The backoff wait after a failed attempt that is not the last.
GenWait ==
  /\ gen.pc = "wait"
  /\ gen' = [gen EXCEPT !.waits = Append(@, BackoffDelay(gen.service, gen.attempt)),
                        !.attempt = @ + 1,
                        !.pc = "call"]
  /\ GenFrame

\* The loop is over: throw lastError.
GenExhausted ==
  /\ gen.pc = "call"
  /\ gen.attempt > gen.max
  /\ gen' = [gen EXCEPT !.pc = "thrown"]
  /\ GenFrame

\* The chunk worker's catch (it calls OpenAIService):
\* updateUrlStatus(id, 'failed', undefined, message, 1).
StoreFailed ==
  /\ gen.pc = "thrown"
  /\ gen.service = "openai"
  /\ gen' = [gen EXCEPT !.pc = "stored",
                        !.row = [status |-> "failed", error |-> gen.lastError,
                                 retry_count |-> 1]]
  /\ GenFrame

\* The chunk worker after the call returned: updateUrlStatus(id, 'completed',
\* result.opener, undefined, 0).
StoreCompleted ==
  /\ gen.pc = "returned"
  /\ gen.service = "openai"
  /\ gen' = [gen EXCEPT !.pc = "stored",
                        !.row = [@ EXCEPT !.status = "completed", !.retry_count = 0]]
  /\ GenFrame

\* processCsvRow, the caller of the service chosen by the factory: it
\* returns a ProcessedRow with success true, or in its catch one with
\* success false and the error message. It writes no item row.
CsvRowResult ==
  /\ gen.pc \in {"thrown", "returned"}
  /\ gen.service = "huggingface"
  /\ gen' = [gen EXCEPT !.pc = "reported",
                        !.csv = [done |-> TRUE,
                                 success |-> (gen.pc = "returned"),
                                 error |-> IF gen.pc = "thrown" THEN gen.lastError ELSE 0]]
  /\ GenFrame

NextGen ==
  GenAttempt \/ GenWait \/ GenExhausted \/ StoreFailed \/ StoreCompleted \/ CsvRowResult

SpecGen == InitGen /\ [][NextGen]_vars

\* ------------------------------------------------------------ the janitor
\* What a queue entry that addChunkedJobs did not build can lack: the data
\* altogether, or one of the properties the worker destructures.
StrayKinds == {"nodata", "nojobid", "nochunk", "nourls", "nocontenttype"}

\* Such an entry, waiting in the queue; its data, if any, names the Job.
StrayChunk(kind) ==
  [state |-> "waiting", urls |-> <<>>, stopped |-> FALSE, epoch |-> 0,
   kind |-> kind, attemptsMade |-> 0]

\* The process starts on a queue that holds nothing, or one such entry.
InitJanitor ==
  /\ \E n \in 1..MaxItems :
       job = [exists |-> TRUE, status |-> "pending", total |-> n,
              processed |-> 0, failed |-> 0, progress |-> 0]
  /\ item = [i \in Items |-> "pending"]
  /\ \E q \in {NoChunk} \cup {StrayChunk(k) : k \in StrayKinds} :
       queue = [s \in QueueIds |-> IF s = StrayId THEN q ELSE NoChunk]
  /\ worker = [w \in Workers |-> IdleWorker]
  /\ resume = NoCall
  /\ cleaner = NoCall
  /\ timers = 0
  /\ ops = <<>>
  /\ hist = [processed |-> 0, failed |-> 0, stopMid |-> FALSE, seqs |-> {},
             sched |-> 0]
  /\ PartIdle
  /\ AuxIdle

\* A worker slot takes the malformed entry: the processor's defensive check
\* (or the destructuring of missing data) throws. The 'failed' handler sets
\* the Job whose id the data carries to failed and defers a cleanupJob call;
\* the queue retries the entry until defaultJobOptions.attempts is used up
\* and then keeps it in its failed set.
W_LeaseStray(w) ==
  /\ worker[w].pc = "idle"
  /\ \A v \in Workers : v < w => worker[v].pc # "idle"
  /\ queue[StrayId].state = "waiting"
  /\ LET c == queue[StrayId]
         n == c.attemptsMade + 1
     IN /\ queue' = [queue EXCEPT ![StrayId] =
                       [c EXCEPT !.attemptsMade = n,
                                 !.state = IF n >= MaxRetries THEN "failed" ELSE "waiting"]]
        /\ job' = IF OfJob(c) THEN UpdateJobStatus(job, "failed") ELSE job
        /\ timers' = IF OfJob(c) THEN timers + 1 ELSE timers
        /\ hist' = [hist EXCEPT !.sched = IF OfJob(c) THEN Epoch ELSE @]
  /\ UNCHANGED <<item, worker, resume, cleaner, ops>>
  /\ UNCHANGED partVars
  /\ UNCHANGED auxVars

\* cleanupCorruptedJobs: remove() on every entry without data, then, after
\* listing again, on every entry whose data names a Job that has no row.
\* A failing remove() is only logged.
CorruptedSweep(q) ==
  LET first == [s \in QueueIds |->
                  IF q[s].state # "none" /\ q[s].kind = "nodata" /\ Removable(q[s])
                  THEN NoChunk ELSE q[s]]
  IN [s \in QueueIds |->
        IF OfJob(first[s]) /\ ~job.exists /\ Removable(first[s])
        THEN NoChunk ELSE first[s]]

\* periodicCleanup starts, from the interval or the startup timer, and
\* runs cleanupCorruptedJobs.
JanitorCorrupted ==
  /\ janitor.pc = "idle"
  /\ queue' = CorruptedSweep(queue)
  /\ janitor' = [janitor EXCEPT !.pc = "list"]
  /\ UNCHANGED <<job, item, worker, resume, cleaner, timers, ops, hist>>
  /\ UNCHANGED partVars
  /\ UNCHANGED <<deletion, db, gen, sse, stopcall, paging>>

\* periodicCleanup lists the queue and groups by jobId the entries whose
\* data carries one.
JanitorList ==
  /\ janitor.pc = "list"
  /\ janitor' = [pc |-> "sweep", listed |-> {s \in QueueIds : OfJob(queue[s])},
                 targets |-> FALSE]
  /\ UNCHANGED engineVars
  /\ UNCHANGED partVars
  /\ UNCHANGED <<deletion, db, gen, sse, stopcall, paging>>

\* The Job of a group has no row, or is completed or failed.
JanitorTargets == ~job.exists \/ job.status \in {"completed", "failed"}

\* periodicCleanup's loop over the groups, first half: getJob for the
\* group's jobId and the decision taken on the row it returns.
JanitorGetJob ==
  /\ janitor.pc = "sweep"
  /\ janitor' = [janitor EXCEPT !.pc = "remove", !.targets = JanitorTargets]
  /\ UNCHANGED engineVars
  /\ UNCHANGED partVars
  /\ UNCHANGED <<deletion, db, gen, sse, stopcall, paging>>

\* Second half: remove() on every listed entry of a Job that was found
\* without row or finished; failures are only logged.
JanitorSweep ==
  /\ janitor.pc = "remove"
  /\ queue' = [s \in QueueIds |->
                 IF s \in janitor.listed /\ janitor.targets
                    /\ queue[s].state # "none" /\ Removable(queue[s])
                 THEN NoChunk ELSE queue[s]]
  /\ janitor' = JanitorIdle
  /\ UNCHANGED <<job, item, worker, resume, cleaner, timers, ops, hist>>
  /\ UNCHANGED partVars
  /\ UNCHANGED <<deletion, db, gen, sse, stopcall, paging>>

\* ------------------------------------------------- the progress stream
\* The statuses on which checkCompletion ends the stream.
StreamEndStatuses == {"completed", "failed", "stopped"}

SseFrame ==
  /\ UNCHANGED engineVars
  /\ UNCHANGED partVars
  /\ UNCHANGED quietVars

\* GET /:jobId/stream for a Job that has a row: the headers, the initial
\* update built from the row and getJobProgress, the progress listener, the
\* close and error handlers, the keep-alive and the completion timers.
SseSubscribe ==
  /\ sse.conn = "off"
  /\ job.exists
  /\ sse' = [SseOff EXCEPT !.conn = "open", !.listener = TRUE, !.keepAlive = TRUE,
                           !.check = TRUE,
                           !.last = RowEvent(job.status, job, item)]
  /\ SseFrame

\* The keep-alive interval fires: a comment line is written.
SseKeepAlive ==
  /\ sse.keepAlive
  /\ ~sse.pinged \/ sse.conn # "open"
  /\ sse' = IF sse.conn = "open" THEN [sse EXCEPT !.pinged = TRUE]
            ELSE [sse EXCEPT !.late = TRUE]
  /\ SseFrame

\* The completion interval fires and getJob returns a row whose status ends
\* the stream: both intervals are cleared and the listener is removed. (On
\* any other answer the callback does nothing.)
SsePoll ==
  /\ sse.check
  /\ sse.poll = "idle"
  /\ job.exists /\ job.status \in StreamEndStatuses
  /\ sse' = [sse EXCEPT !.keepAlive = FALSE, !.check = FALSE, !.listener = FALSE,
                        !.poll = "final", !.polled = job.status]
  /\ SseFrame

\* The rest of that callback: getJobProgress; if the row is still there the
\* final update, with the status read before, is written; then res.end().
SseFinal ==
  /\ sse.poll = "final"
  /\ LET written == IF job.exists
                    THEN [SseWrite(sse, RowEvent(sse.polled, job, item))
                            EXCEPT !.finals = @ + 1]
                    ELSE sse
     IN sse' = [written EXCEPT !.poll = "done",
                               !.conn = IF @ = "open" THEN "ended" ELSE @]
  /\ SseFrame

\* The client goes away: req emits 'close' and the handler removes the
\* progress listener.
SseClientClose ==
  /\ sse.conn = "open"
  /\ sse' = [sse EXCEPT !.conn = "closed", !.listener = FALSE]
  /\ SseFrame

SseStep == SseSubscribe \/ SseKeepAlive \/ SsePoll \/ SseFinal \/ SseClientClose

\* ------------------------------------------------------------------ Next
WorkerStep ==
  \E w \in Workers :
    \/ \E s \in ChunkIds : W_Lease(w, s)
    \/ W_Check(w)
    \/ W_Begin(w)
    \/ \E ok \in BOOLEAN : W_Finish(w, ok)
    \/ W_EndRead(w)
    \/ W_EndWrite(w)

Next ==
  \/ Start
  \/ Stop
  \/ ResumeBegin
  \/ ResumeCleanup
  \/ ResumeFinish
  \/ RetryFailedUrls
  \/ TimerFire
  \/ CleanerAttempt
  \/ WorkerStep

Spec == Init /\ [][Next]_vars

\* Requests made as the Job's state machine allows them: Start on a pending
\* Job, Stop on a processing one.
StartPending == job.status = "pending" /\ Start

StopProcessing == job.status = "processing" /\ Stop

NextLifecycle ==
  \/ StartPending
  \/ StopProcessing
  \/ ResumeBegin
  \/ ResumeCleanup
  \/ ResumeFinish
  \/ RetryFailedUrls
  \/ TimerFire
  \/ CleanerAttempt
  \/ WorkerStep

SpecLifecycle == Init /\ [][NextLifecycle]_vars

\* The Stop/Resume scenario on its own: requests as above, every generation
\* call succeeds, and nobody retries.

WorkerStepOk ==
  \E w \in Workers :
    \/ \E s \in ChunkIds : W_Lease(w, s)
    \/ W_Check(w)
    \/ W_Begin(w)
    \/ W_Finish(w, TRUE)
    \/ W_EndRead(w)
    \/ W_EndWrite(w)

NextStopResume ==
  \/ StartPending
  \/ StopProcessing
  \/ ResumeBegin
  \/ ResumeCleanup
  \/ ResumeFinish
  \/ TimerFire
  \/ CleanerAttempt
  \/ WorkerStepOk

SpecStopResume == Init /\ [][NextStopResume]_vars

\* Every route, with its refusals, on a job id that has a row or has none.
InitRoutes ==
  /\ \/ \E n \in 1..MaxRouteItems :
          job = [exists |-> TRUE, status |-> "pending", total |-> n,
                 processed |-> 0, failed |-> 0, progress |-> 0]
     \/ job = NoJob
  /\ EngineIdle
  /\ PartIdle
  /\ AuxIdle

NextRoutes ==
  \/ Start
  \/ StartRefused
  \/ Stop
  \/ StopRefused
  \/ CancelJob
  \/ ResumeBegin
  \/ ResumeCleanup
  \/ ResumeFinish
  \/ ResumeRefused
  \/ RetryFailedUrls
  \/ RetryRefused
  \/ DeleteBegin
  \/ DeleteCleanup
  \/ DeleteFinish
  \/ DeleteRefused
  \/ TimerFire
  \/ CleanerAttempt
  \/ WorkerStep

SpecRoutes == InitRoutes /\ [][NextRoutes]_vars

\* The janitor beside a run: the Job is started, the workers process its
\* chunks and may meet the malformed entry, the Job may be deleted, the
\* deferred cleanupJob calls run, and periodicCleanup passes repeat.
StrayStep == \E w \in Workers : W_LeaseStray(w)

JanitorStep == JanitorCorrupted \/ JanitorList \/ JanitorGetJob \/ JanitorSweep

CleanerStep == TimerFire \/ CleanerAttempt

NextJanitor ==
  \/ StartPending
  \/ WorkerStep
  \/ StrayStep
  \/ JanitorStep
  \/ CleanerStep
  \/ DeleteBegin
  \/ DeleteCleanup
  \/ DeleteFinish

SpecJanitor == InitJanitor /\ [][NextJanitor]_vars

\* The same with the scheduling the process gives: a worker that can take a
\* step takes it, a timer that is due fires, the interval of periodicCleanup
\* keeps coming round.
SpecJanitorFair ==
  /\ SpecJanitor
  /\ WF_vars(WorkerStep)
  /\ WF_vars(StrayStep)
  /\ WF_vars(JanitorStep)
  /\ WF_vars(CleanerStep)

\* A run watched through the progress stream: the Job is started, stopped,
\* resumed and deleted, the workers and the deferred cleanups run, and one
\* client subscribes to the Job's stream.
NextStream ==
  \/ StartPending
  \/ StopProcessing
  \/ ResumeBegin
  \/ ResumeCleanup
  \/ ResumeFinish
  \/ DeleteBegin
  \/ DeleteCleanup
  \/ DeleteFinish
  \/ CleanerStep
  \/ WorkerStep
  \/ SseStep

SpecStream == InitRoutes /\ [][NextStream]_vars

\* stopJob's loop beside the workers and the deferred cleanupJob: the Job is
\* started, the workers take and finish chunks, and the cleanups scheduled
\* by earlier ends run while a Stop request removes or marks chunks one by
\* one.
NextStopSweep ==
  \/ StartPending
  \/ WorkerStep
  \/ CleanerStep
  \/ StopStep

SpecStopSweep == Init /\ [][NextStopSweep]_vars

\* The start of a Job by the route's two branches: one addChunkedJobs call
\* for a Job of at most batchSize items, the paged start for a larger one,
\* beside the workers and a Stop request, which ends the paging.
StartSmall == Len(JobUrls) <= BatchSize /\ StartPending

StartLarge == job.status = "pending" /\ StartStreaming

NextPaging ==
  \/ StartSmall
  \/ StartLarge
  \/ StreamBatch
  \/ StreamReturn
  \/ StopProcessing
  \/ WorkerStep

SpecPaging == Init /\ [][NextPaging]_vars

\* ================================================================ claims
\* Nothing of the Job is in the queue's waiting or active set, no worker
\* slot is busy, and no resumeJob or cleanupJob call is pending or running.
Quiescent ==
  /\ \A w \in Workers : worker[w].pc = "idle"
  /\ \A s \in QueueIds : queue[s].state \notin {"waiting", "active"}
  /\ resume.pc = "idle"
  /\ cleaner.pc = "idle"
  /\ timers = 0

\* C1: in every reachable state the Job's processed_count + failed_count is
\* at most total_items.
C1_CountsWithinTotal == job.processed + job.failed <= job.total

Ceil(n, c) == (n + c - 1) \div c

RECURSIVE ConcatUrls(_)
ConcatUrls(chunks) ==
  IF chunks = <<>> THEN <<>> ELSE Head(chunks).urls \o ConcatUrls(Tail(chunks))

SeqSet(s) == {s[k] : k \in 1..Len(s)}

\* C2: with chunk size C > 0, addChunkedJobs has, when it returns, enqueued
\* exactly ceil(N/C) chunks numbered 1..k, each of at most C items, pairwise
\* disjoint, whose concatenation in sequence order is the input list.
C2_PartitionCovers ==
  (ppc = "done" /\ pC > 0) =>
    /\ Len(penq) = Ceil(Len(purls), pC)
    /\ \A k \in 1..Len(penq) : penq[k].chunk = k /\ Len(penq[k].urls) <= pC
    /\ \A k, l \in 1..Len(penq) :
         k # l => SeqSet(penq[k].urls) \cap SeqSet(penq[l].urls) = {}
    /\ ConcatUrls(penq) = purls

\* A call with three items and chunk size 2 has returned: chunks of 2 and 1.
C2_Witness ==
  /\ ppc = "done"
  /\ pC = 2
  /\ Len(purls) = 3
  /\ Len(penq) = 2
  /\ Len(penq[2].urls) = 1

\* C3: called with chunk size C <= 0 the partitioner fails with an error: it
\* does not return normally, its partition loop does not run on (here: to
\* MaxLoop iterations, the index never advancing), and it enqueues no chunk.
C3_InvalidChunkSizeFails ==
  pC <= 0 => (ppc # "done" /\ Len(pchunks) < MaxLoop /\ penq = <<>>)

\* C4: no chunk-end update is lost: after a Start, with no other request,
\* the row's counts are the counts Start wrote (0, 0) plus the deltas of
\* every chunk-end update made since.
C4_NoLostUpdate ==
  ops = <<"Start">> =>
    /\ job.processed = hist.processed
    /\ job.failed = hist.failed

\* C5: a Job of several chunks that was started, never stopped or retried,
\* and none of whose items failed, is completed with processed_count = N and
\* failed_count = 0 once its chunks are all processed.
C5_RunCompletes ==
  ( /\ ops = <<"Start">>
    /\ job.total > ChunkSize
    /\ Quiescent
    /\ \A i \in 1..job.total : item[i] # "failed" ) =>
  (job.status = "completed" /\ job.processed = job.total /\ job.failed = 0)

\* C6: after Start, a Stop that found a chunk partly processed, and Resume,
\* with no item failing, the Job ends completed with processed_count =
\* total_items: once nothing is left to run that is the state it is in.
C6_ResumedJobCompletes ==
  (ops = <<"Start", "Stop", "Resume">> /\ hist.stopMid /\ Quiescent) =>
  (job.status = "completed" /\ job.processed = job.total)

LastOp == IF ops = <<>> THEN "none" ELSE ops[Len(ops)]

\* C7: the chunks a returning Resume enqueues hold only items whose status
\* was pending or failed; and from then on, until the next request, no
\* completed item leaves completed and processed_count never exceeds the
\* number of completed items (none is counted twice).
C7_ResumeOnlyUnfinished ==
  [][ /\ ops' = Append(ops, "Resume") =>
           \A s \in ChunkIds :
             (queue'[s] # queue[s] /\ queue'[s].state = "waiting") =>
               \A k \in 1..Len(queue'[s].urls) :
                 item[queue'[s].urls[k]] \in {"pending", "failed"}
      /\ (LastOp = "Resume" /\ ops' = ops) =>
           \A i \in 1..job.total : item[i] = "completed" => item'[i] = "completed"
      /\ LastOp' = "Resume" => job'.processed <= CountStatus("completed")'
    ]_vars

\* Worker w starts an item in this step: it marks it processing and calls
\* the generation.
StartsItem(w) == worker[w].pc = "begin" /\ worker'[w].pc = "gen"

\* C8: once a Resume has returned, no worker starts an item of a chunk that
\* was enqueued before that Resume (before the preceding Stop).
C8_NoStaleChunkAfterResume ==
  [][\A w \in Workers : StartsItem(w) => worker[w].epoch = Epoch]_vars

\* C9: no two chunks that are in the queue waiting or held by a worker at
\* the same time contain the same item.
C9_ChunkExclusive ==
  \A s, t \in ChunkIds :
    ( /\ s # t
      /\ queue[s].state \in {"waiting", "active"}
      /\ queue[t].state \in {"waiting", "active"} ) =>
    SeqSet(queue[s].urls) \cap SeqSet(queue[t].urls) = {}

\* C10: once a worker has read the Job as stopped before an item, it starts
\* no further item of that chunk: for the rest of that processor call it is
\* at the chunk-end update and its position in the chunk does not move.
C10_StoppedSeenStartsNothing ==
  [][\A w \in Workers :
       (worker[w].sawStopped /\ worker'[w].chunk = worker[w].chunk) =>
         /\ worker'[w].pc \in {"endRead", "endWrite"}
         /\ worker'[w].idx = worker[w].idx
         /\ ~StartsItem(w)]_vars

\* A worker saw stopped with an item of its chunk still unstarted, after the
\* item that was in flight when Stop ran had finished and been written: the
\* row's processed_count, copied by Stop, is behind the completed items.
C10_Witness ==
  \E w \in Workers :
    /\ worker[w].sawStopped
    /\ worker[w].idx <= Len(worker[w].urls)
    /\ worker[w].processedCount >= 1
    /\ job.status = "stopped"
    /\ job.processed < CountStatus("completed")

\* A request of one of the kinds in S is answered in this step.
Answered(S) == \E x \in S : ops' = Append(ops, x)

StopAnswers == {"Stop", "Stop:400", "Stop:404"}

ResumeStarts == resume.pc = "idle" /\ resume'.pc # "idle"

DeleteStarts == deletion.pc = "idle" /\ deletion'.pc # "idle"

C12_StopOnlyWhenProcessing ==
  [][(job.exists /\ job.status \in {"pending", "completed", "failed"}
        /\ Answered(StopAnswers \cup {"Cancel"})) =>
       (ops' = Append(ops, "Stop:400") /\ job'.status = job.status)]_vars

\* C13: a Start request on a Job whose status is not pending is refused, and
\* it resets no item and no count and enqueues nothing.
C13_StartOnlyWhenPending ==
  [][(job.exists /\ job.status # "pending"
        /\ Answered({"Start", "Start:400", "Start:404"})) =>
       (ops' = Append(ops, "Start:400") /\ UNCHANGED <<job, item, queue>>)]_vars

\* C14: on a Job that is missing or whose status is not stopped no Resume
\* begins, and the refusal of a Resume request says so (404 missing, 400
\* otherwise) and leaves the Job row, the items and the queue as they were.
C14_ResumeOnlyWhenStopped ==
  [][~(job.exists /\ job.status = "stopped") =>
       /\ ~ResumeStarts
       /\ ops' # Append(ops, "Resume") \/ resume.pc = "done"
       /\ Answered({"Resume:400", "Resume:404"}) =>
            /\ ops' = Append(ops, IF job.exists THEN "Resume:400" ELSE "Resume:404")
            /\ UNCHANGED <<job, item, queue>>]_vars

\* Resume was refused on a processing Job that has a chunk in the queue.
C14_Witness ==
  /\ LastOp = "Resume:400"
  /\ job.status = "processing"
  /\ \E s \in ChunkIds : queue[s].state \in {"waiting", "active"}

\* C15: the sequence numbers (and queue ids) of the chunks a returning
\* Resume hands to the queue were given to no earlier chunk of the Job.
C15_ResumeSeqsFresh ==
  [][ops' = Append(ops, "Resume") =>
       ChunkSeqs(PendingUrls) \cap hist.seqs = {}]_vars

\* C16: a RetryFailed on a completed or failed Job with a failed item sets
\* the Job to processing and leaves every item it reset in a chunk waiting
\* in the queue.
C16_RetryEnqueuesResetItems ==
  [][(job.status \in {"completed", "failed"} /\ CountStatus("failed") >= 1
        /\ ops' = Append(ops, "Retry")) =>
       /\ job'.status = "processing"
       /\ \A i \in 1..job.total :
            item[i] = "failed" =>
              \E s \in ChunkIds : /\ queue'[s].state = "waiting"
                                  /\ i \in SeqSet(queue'[s].urls)]_vars

\* C17: a retry call of job j with targets T (all ids, or the ids supplied)
\* sets to pending with the error cleared exactly the rows of j in T whose
\* status was failed, returns their number, and leaves every other row of
\* urls, of j or of another Job, as it was.
C17_RetryResetsExactlyFailedTargets ==
  [][(db.pc = "ready" /\ db'.pc = "done") =>
       LET j == db'.call[2]
           T == db'.call[3]
           hit == {id \in DbUrlIds : /\ db.urls[id].job = j
                                     /\ id \in T
                                     /\ db.urls[id].status = "failed"}
       IN /\ \A id \in hit :
               db'.urls[id] = [job |-> j, status |-> "pending", error |-> FALSE]
          /\ \A id \in DbUrlIds \ hit : db'.urls[id] = db.urls[id]
          /\ db'.ret = Cardinality(hit)]_vars

\* A retry of some of the ids reset one row and left alone a failed row of
\* the same Job that was not named and a failed row of another Job that was.
C17_Witness ==
  /\ db.pc = "done"
  /\ db.call[1] = "retrySpecificUrls"
  /\ db.ret = 1
  /\ \E a, b \in DbUrlIds :
       /\ a \notin db.call[3] /\ db.urls[a].job = db.call[2]
       /\ db.urls[a].status = "failed"
       /\ b \in db.call[3] /\ db.urls[b].job # db.call[2]
       /\ db.urls[b].status = "failed"

\* C18: on a Job whose status is processing no delete begins, and a Delete
\* request is refused with the invalid-state error (400), the Job row, the
\* items and the queue staying as they were.
C18_DeleteRefusedWhileProcessing ==
  [][(job.exists /\ job.status = "processing") =>
       /\ ~DeleteStarts
       /\ Answered({"Delete:400", "Delete:404"}) =>
            (ops' = Append(ops, "Delete:400") /\ UNCHANGED <<job, item, queue>>)]_vars

\* Delete was refused on a processing Job with a chunk in the queue.
C18_Witness ==
  /\ LastOp = "Delete:400"
  /\ job.status = "processing"
  /\ \E s \in ChunkIds : queue[s].state \in {"waiting", "active"}

Accepts == {"Start", "Stop", "Retry"}

NotFound == {"Start:404", "Stop:404", "Resume:404", "Delete:404", "Retry:404"}

\* C19: on a job id without a row, no Start, Stop or RetryFailed is accepted,
\* no Resume and no Delete begins; the request is answered not-found (404)
\* and the Job, the items and the queue stay as they were.
C19_NotFoundChangesNothing ==
  [][~job.exists =>
       /\ ~Answered(Accepts)
       /\ ~ResumeStarts
       /\ ~DeleteStarts
       /\ Answered(NotFound \cup {"Start:400", "Stop:400", "Resume:400", "Delete:400"}) =>
            (Answered(NotFound) /\ UNCHANGED <<job, item, queue>>)]_vars

\* Three requests on an id that never had a row, each answered not-found.
C19_Witness ==
  /\ ~job.exists
  /\ Len(ops) = MaxOps
  /\ \A k \in 1..Len(ops) : ops[k] \in NotFound
  /\ \E k \in 1..Len(ops) : ops[k] = "Start:404"

\* C20: when every attempt of an item throws a transient error, then once
\* the worker has written the row, the generation was called exactly
\* maxRetries times, the row is failed with the error of the last attempt,
\* and the attempt count on the row is maxRetries.
C20_TransientExhaustsRetries ==
  (gen.pc = "stored" /\ \A a \in 1..gen.max : gen.plan[a] = "transient") =>
    /\ gen.calls = gen.max
    /\ gen.row.status = "failed"
    /\ gen.row.error = gen.max
    /\ gen.row.retry_count = gen.max

RetryDelay == 1000

\* C22: the k-th backoff wait of an item, the one between failed attempt k
\* and attempt k + 1, lasts base * 2^(k-1); there are at most maxRetries - 1
\* waits, so none after the last attempt.
C22_BackoffDelays ==
  /\ Len(gen.waits) <= gen.max - 1
  /\ \A k \in 1..Len(gen.waits) : gen.waits[k] = RetryDelay * (2 ^ (k - 1))

\* C23: item failures never fail the Job: after a Start with no other
\* request the Job's status is never failed, and once its chunks are all
\* processed, with at least one item failed, the Job is completed with
\* processed_count the number of completed items and failed_count the number
\* of failed items.
C23_ItemFailuresDoNotFailJob ==
  ops = <<"Start">> =>
    /\ job.status # "failed"
    /\ (Quiescent /\ CountStatus("failed") >= 1) =>
         /\ job.status = "completed"
         /\ job.processed = CountStatus("completed")
         /\ job.failed = CountStatus("failed")

\* C24: whenever the queue holds chunks that reference the Job while the
\* Job has no row or is completed or failed, then, the workers releasing
\* the chunks they hold and the janitor's passes repeating, the queue later
\* holds no chunk that references the Job.
C24_JanitorEmptiesFinishedJobs ==
  (JanitorTargets /\ HasChunks(queue)) ~> ~HasChunks(queue)

\* C25: a malformed queue entry never changes the status of a Job, whoever
\* meets it: no step that touches the entry changes the status; and the
\* entry is in the end removed from the queue.
C25_MalformedEntryDropped ==
  /\ [][(queue[StrayId].state # "none" /\ queue'[StrayId] # queue[StrayId])
          => job'.status = job.status]_vars
  /\ (queue[StrayId].state # "none") ~> (queue[StrayId].state = "none")

\* C26: every cleanupJob call makes at most maxAttempts removal sweeps and
\* then returns: a negative result exactly when a chunk of the Job is left
\* in the queue. Its callers go on whatever it returned: resumeJob and the
\* delete route can always take their next step, which is their answer;
\* stopJob has answered before its deferred call starts.
C26_CleanupBoundedAndTolerated ==
  [][ /\ resume'.attempts <= MaxAttempts
      /\ deletion'.attempts <= MaxAttempts
      /\ cleaner'.attempts <= MaxAttempts
      /\ (resume.pc # "done" /\ resume'.pc = "done") =>
           (resume'.result <=> ~HasChunks(queue'))
      /\ (deletion.pc # "done" /\ deletion'.pc = "done") =>
           (deletion'.result <=> ~HasChunks(queue'))
      /\ resume.pc = "done" => ENABLED ResumeFinish
      /\ deletion.pc = "done" => ENABLED DeleteFinish
      /\ (resume.pc = "done" /\ resume' # resume) => ops' = Append(ops, "Resume")
      /\ (deletion.pc = "done" /\ deletion' # deletion) => ops' = Append(ops, "Delete")
    ]_vars

\* resumeJob's cleanupJob call has made its three sweeps and returned a
\* negative result: a worker still holds a chunk of the Job.
C26_Witness ==
  /\ resume.pc = "done"
  /\ resume.attempts = MaxAttempts
  /\ ~resume.result
  /\ \E s \in ChunkIds : queue[s].state = "active"

\* C28: the progress column of the Job row is 100 * (processed_count +
\* failed_count) / total_items of the counts the row holds, and 0 when
\* total_items is 0, after every write to the row.
C28_ProgressFromBothCounts ==
  job.exists =>
    job.progress = IF job.total = 0 THEN 0
                   ELSE (10000 * (job.processed + job.failed) + job.total \div 2)
                          \div job.total

\* C27: whenever a worker's chunk-end update moves the Job to completed,
\* the counts it has just written add up to exactly total_items, and a
\* Progress Event with status completed and those two counts is published:
\* a subscribed stream receives it in that step.
C27_CompletedExactlyAtTotal ==
  [][\A w \in Workers :
       (worker[w].pc = "endWrite" /\ worker'[w].pc = "idle" /\ ChunkCompletesJob(w)) =>
         LET newProcessedRows == worker[w].readProcessed + worker[w].processedCount
             newFailedRows == worker[w].readFailed + worker[w].failedCount
         IN /\ newProcessedRows + newFailedRows = worker[w].readTotal
            /\ sse.listener =>
                 /\ sse'.last.status = "completed"
                 /\ sse'.last.completed = newProcessedRows
                 /\ sse'.last.failed = newFailedRows
    ]_vars

\* C29: when the server has ended a subscription's stream, exactly one
\* final event was written to it and it is the last event the client got,
\* carrying a status that ends the stream; the progress listener is removed;
\* and from then on nothing is written to the stream and nothing of the
\* subscription changes.
C29_StreamEndsWithOneFinalEvent ==
  /\ [](sse.conn = "ended" =>
          /\ sse.finals = 1
          /\ sse.last.status \in StreamEndStatuses
          /\ ~sse.listener
          /\ ~sse.late)
  /\ [][sse.conn = "ended" => sse' = sse]_vars

\* C30: when stopJob returns true, every chunk of the Job that its listing
\* of the queue found waiting, active or delayed is either no longer in the
\* queue or carries the stopped flag.
C30_StopRemovesOrMarks ==
  [][(stopcall.pc = "sweep" /\ stopcall'.pc = "idle") =>
       \A s \in stopcall.seen : queue'[s].state = "none" \/ queue'[s].stopped]_vars

\* stopJob has returned on a Job of two chunks: one it found in the hands of
\* a worker is still in the queue and flagged, the other it found waiting
\* is removed.
C30_Witness ==
  /\ LastOp = "Stop"
  /\ stopcall.pc = "idle"
  /\ Cardinality(stopcall.seen) = 2
  /\ \E s, t \in stopcall.seen :
       /\ queue[s].state \in {"active", "completed"} /\ queue[s].stopped
       /\ queue[t].state = "none"

\* C31: a chunk whose stopped flag is set is not processed further. A
\* worker that takes a flagged chunk from the queue changes no item and no
\* count of the Job; a worker that holds a chunk the queue has flagged and
\* comes to the top of its loop does not go on to start the next item.
C31_FlaggedChunkNotProcessed ==
  [][/\ \A w \in Workers, s \in ChunkIds :
          (queue[s].state = "waiting" /\ queue[s].stopped
             /\ worker[w].pc = "idle" /\ queue'[s].state # "waiting")
            => (item' = item /\ job' = job /\ worker'[w].pc = "idle")
     /\ \A w \in Workers :
          (worker[w].pc = "check" /\ queue[worker[w].chunk].state = "active"
             /\ queue[worker[w].chunk].epoch = worker[w].epoch
             /\ queue[worker[w].chunk].stopped)
            => worker'[w].pc # "begin"]_vars

\* C32: whenever the Job is stopped and no worker holds one of its chunks,
\* the row's processed_count is the number of its items with status
\* completed and its failed_count the number with status failed.
C32_StoppedCountsMatchItems ==
  (job.exists /\ job.status = "stopped" /\ \A w \in Workers : worker[w].pc = "idle")
    => /\ job.processed = CountStatus("completed")
       /\ job.failed = CountStatus("failed")

\* C33: once the Job's status is stopped it stays stopped until a request
\* (Resume, Delete) changes it: no step of a worker replaces stopped by
\* processing or completed.
C33_StoppedStaysStopped ==
  [][(job.exists /\ job.status = "stopped" /\ job'.status # "stopped")
       => (ops' # ops \/ resume' # resume \/ deletion' # deletion)]_vars

\* C34: a deferred cleanupJob call never removes or flags a chunk that a
\* Resume enqueued after the call was scheduled: a chunk enqueued after the
\* latest setTimeout(cleanupJob) is left as it is by every step of the
\* deferred call.
C34_CleanupSparesLaterChunks ==
  [][(timers' < timers \/ cleaner' # cleaner) =>
       \A s \in ChunkIds :
         (queue[s].state # "none" /\ queue[s].epoch > hist.sched)
           => queue'[s] = queue[s]]_vars

\* C35: whenever the Job's status is completed, every one of its items has
\* status completed or failed and no chunk of the Job is waiting in the
\* queue.
C35_CompletedMeansAllItemsDone ==
  (job.exists /\ job.status = "completed") =>
    /\ CountStatus("pending") = 0
    /\ CountStatus("processing") = 0
    /\ \A s \in ChunkIds : queue[s].state # "waiting"

\* C36: a janitor pass removes no chunk of an existing Job whose status is
\* pending, processing or stopped: a step of the pass taken while the Job
\* has such a status leaves the Job's chunks, its row and its items as
\* they are.
C36_JanitorSparesLiveJobs ==
  [][(janitor' # janitor /\ job.exists
        /\ job.status \in {"pending", "processing", "stopped"})
       => /\ \A s \in ChunkIds : queue'[s] = queue[s]
          /\ job' = job
          /\ item' = item]_vars

\* The chunks of the queue that hold item i.
ChunksHolding(i) ==
  {s \in ChunkIds : queue[s].state # "none"
                    /\ \E k \in 1..Len(queue[s].urls) : queue[s].urls[k] = i}

\* C37: when the paged start of a large Job has returned and no other
\* request was made, every item of the Job is in exactly one chunk in the
\* queue, and the queue ids handed to Queue.add for the Job, within a batch
\* and across batches, are all different.
C37_PagedStartCoversItems ==
  (paging.pc = "returned" /\ ops = <<"Start">>) =>
    /\ \A i \in 1..Len(JobUrls) : Cardinality(ChunksHolding(i)) = 1
    /\ \A a, b \in 1..Len(paging.ids) : a # b => paging.ids[a] # paging.ids[b]

\* C38: after the Progress Event with status stopped has been published,
\* no Progress Event with status processing is published until Resume is
\* called: while Stop is the last request answered, no step other than a
\* request delivers an event with status processing to a subscriber.
C38_NoProcessingEventAfterStopped ==
  [][(LastOp = "Stop" /\ ops' = ops /\ resume' = resume)
       => ~(sse'.last # sse.last /\ sse'.last.status = "processing")]_vars

\* C39: once a subscriber's connection has closed, by the client going away
\* or by the server ending the stream, no timer and no listener of the
\* subscription is left (keep-alive timer, completion timer, progress
\* listener) and no write to the stream is attempted.
C39_ClosedStreamLeavesNothing ==
  sse.conn \in {"closed", "ended"} =>
    /\ ~sse.keepAlive
    /\ ~sse.check
    /\ ~sse.listener
    /\ ~sse.late

====
